---- MODULE Spec2Model ----
(***************************************************************************)
(* wire-notifications.py: a one-shot patch script.  Four text-editing      *)
(* primitives (insert_import, insert_after, insert_before, replace_text)   *)
(* and the driver main, which applies them to seven target files.          *)
(*                                                                         *)
(* Text is modelled as a sequence of lexemes.  The lexemes the code tests  *)
(* for are atomic: NL is the newline character, IMP the prefix 'import ',  *)
(* CM the prefix '//', and every whitespace run is made of the lexemes of  *)
(* Whitespace.  All of Python's string operations used by the script       *)
(* (in, find, index, rfind, split, join, strip, startswith, replace with   *)
(* count 1, slicing) are computed on these sequences as Python computes    *)
(* them on characters; indices are 0-based as in the source and -1 is      *)
(* find's "not found".                                                     *)
(***************************************************************************)
EXTENDS Integers, Sequences, FiniteSets, TLC

NL  == "\n"
SP  == " "
IN2 == "  "
CM  == "//"
IMP == "import "

\* the lexemes str.strip() removes
Whitespace == {NL, SP, IN2}

-----------------------------------------------------------------------------
(* Python string operations *)

\* s[a:b] for 0 <= a, b (Python slice on 0-based positions)
Slice(s, a, b) == SubSeq(s, a + 1, IF b > Len(s) THEN Len(s) ELSE b)

\* s[a:]
SliceFrom(s, a) == SubSeq(s, a + 1, Len(s))

\* sub occurs in s at 0-based position i
OccursAt(s, sub, i) ==
    /\ i >= 0
    /\ i + Len(sub) <= Len(s)
    /\ SubSeq(s, i + 1, i + Len(sub)) = sub

\* sub in s
Contains(s, sub) == \E i \in 0..(Len(s) - Len(sub)) : OccursAt(s, sub, i)

\* s.find(sub, start): lowest position >= start, or -1
FindFrom(s, sub, start) ==
    LET hits == {i \in start..(Len(s) - Len(sub)) : OccursAt(s, sub, i)}
    IN  IF hits = {} THEN -1 ELSE CHOOSE i \in hits : \A j \in hits : i <= j

\* s.find(sub)
Find(s, sub) == FindFrom(s, sub, 0)

\* s.rfind(sub, 0, end): highest position with the occurrence inside s[0:end]
RFind(s, sub, end) ==
    LET hits == {i \in 0..(end - Len(sub)) : OccursAt(s, sub, i)}
    IN  IF hits = {} THEN -1 ELSE CHOOSE i \in hits : \A j \in hits : i >= j

\* s.startswith(prefix)
StartsWith(s, prefix) == OccursAt(s, prefix, 0)

\* s.split('\n')
RECURSIVE Split(_)
Split(s) ==
    LET i == Find(s, <<NL>>)
    IN  IF i = -1 THEN <<s>>
        ELSE <<Slice(s, 0, i)>> \o Split(SliceFrom(s, i + 1))

\* '\n'.join(lines)
RECURSIVE Join(_)
Join(lines) ==
    IF Len(lines) = 0 THEN <<>>
    ELSE IF Len(lines) = 1 THEN lines[1]
    ELSE lines[1] \o <<NL>> \o Join(Tail(lines))

\* s.lstrip(), s.rstrip(), s.strip()
RECURSIVE LStrip(_)
LStrip(s) == IF Len(s) > 0 /\ s[1] \in Whitespace THEN LStrip(Tail(s)) ELSE s

RECURSIVE RStrip(_)
RStrip(s) ==
    IF Len(s) > 0 /\ s[Len(s)] \in Whitespace
    THEN RStrip(SubSeq(s, 1, Len(s) - 1)) ELSE s

Strip(s) == RStrip(LStrip(s))

\* variant: s.replace(old, new), every occurrence replaced
ReplaceFirst_all(s, old, new) ==
    LET RECURSIVE R(_)
        R(t) == LET i == Find(t, old)
                IN  IF i = -1 \/ Len(old) = 0 THEN t
                    ELSE Slice(t, 0, i) \o new \o R(SliceFrom(t, i + Len(old)))
    IN  R(s)

\* s.replace(old, new, 1)
ReplaceFirst(s, old, new) ==
    LET i == Find(s, old)
    IN  IF i = -1 THEN s
        ELSE Slice(s, 0, i) \o new \o SliceFrom(s, i + Len(old))

\* lines.insert(k, x) for 0 <= k <= len(lines)
ListInsert(lines, k, x) ==
    SubSeq(lines, 1, k) \o <<x>> \o SubSeq(lines, k + 1, Len(lines))

\* [f(l) for l in lines if keep(l)] with f = strip and
\* keep(l) = l.strip() and not l.strip().startswith('//')
RECURSIVE KeptStripped(_)
KeptStripped(lines) ==
    IF Len(lines) = 0 THEN <<>>
    ELSE LET l == Strip(lines[1])
         IN  (IF Len(l) > 0 /\ ~StartsWith(l, <<CM>>) THEN <<l>> ELSE <<>>)
             \o KeptStripped(Tail(lines))

\* the check_lines of a code block
CheckLines(code_block) == KeptStripped(Split(Strip(code_block)))

\* check_lines and check_lines[0] in content
AlreadyApplied(content, code_block) ==
    LET check_lines == CheckLines(code_block)
    IN  Len(check_lines) > 0 /\ Contains(content, check_lines[1])

-----------------------------------------------------------------------------
(* The primitives, as functions from the file's content to the content      *)
(* written, the diagnostic printed and whether an exception left the call.  *)

Patched  == "Patched"            \* "  + Patched" (check mark)
Already  == "Already applied"    \* "  ~ Already applied in ..."
Warning  == "Warning"            \* "  (warning sign) Marker not found" / "Text not found"
Silent   == "Silent"             \* nothing printed
Uncaught == "ValueError"         \* traceback of the uncaught exception

Outcome(content, diag, wrote, raised) ==
    [content |-> content, diag |-> diag, wrote |-> wrote, raised |-> raised]

\* index of the last line that starts with 'import ', or -1
LastImportIdx(lines) ==
    LET hits == {i \in 0..(Len(lines) - 1) : StartsWith(lines[i + 1], <<IMP>>)}
    IN  IF hits = {} THEN -1 ELSE CHOOSE i \in hits : \A j \in hits : i >= j

\* variant: insert_import without the test of line 25
InsertImport_nocheck(content, import_line) ==
    LET lines == Split(content)
        last_import_idx == LastImportIdx(lines)
        k == IF last_import_idx >= 0 THEN last_import_idx + 1 ELSE 0
    IN  Outcome(Join(ListInsert(lines, k, import_line)), Silent, TRUE, FALSE)

\* variant: insert_import that always inserts at index 0
InsertImport_top(content, import_line) ==
    IF Contains(content, import_line)
    THEN Outcome(content, Silent, FALSE, FALSE)
    ELSE Outcome(Join(ListInsert(Split(content), 0, import_line)), Silent, TRUE, FALSE)

\* insert_import (lines 22-37)
InsertImport(content, import_line) ==
    IF Contains(content, import_line)
    THEN Outcome(content, Silent, FALSE, FALSE)
    ELSE LET lines == Split(content)
             last_import_idx == LastImportIdx(lines)
             k == IF last_import_idx >= 0 THEN last_import_idx + 1 ELSE 0
         IN  Outcome(Join(ListInsert(lines, k, import_line)), Silent, TRUE, FALSE)

\* variant: insert_after that looks for the marker before the check line
InsertAfter_markerfirst(content, marker, code_block) ==
    IF Find(content, marker) = -1
    THEN Outcome(content, Warning, FALSE, FALSE)
    ELSE IF AlreadyApplied(content, code_block)
    THEN Outcome(content, Already, FALSE, FALSE)
    ELSE LET end_of_line == FindFrom(content, <<NL>>, Find(content, marker))
         IN  IF end_of_line = -1
             THEN Outcome(content, Uncaught, FALSE, TRUE)
             ELSE Outcome(Slice(content, 0, end_of_line + 1) \o code_block
                              \o SliceFrom(content, end_of_line + 1),
                          Patched, TRUE, FALSE)

\* variant: insert_after that uses the last occurrence of the marker
InsertAfter_lastmarker(content, marker, code_block) ==
    IF AlreadyApplied(content, code_block)
    THEN Outcome(content, Already, FALSE, FALSE)
    ELSE LET idx == RFind(content, marker, Len(content))
         IN  IF idx = -1
             THEN Outcome(content, Warning, FALSE, FALSE)
             ELSE LET end_of_line == FindFrom(content, <<NL>>, idx)
                  IN  IF end_of_line = -1
                      THEN Outcome(content, Uncaught, FALSE, TRUE)
                      ELSE Outcome(Slice(content, 0, end_of_line + 1) \o code_block
                                       \o SliceFrom(content, end_of_line + 1),
                                   Patched, TRUE, FALSE)

\* insert_after (lines 40-56)
InsertAfter(content, marker, code_block) ==
    IF AlreadyApplied(content, code_block)
    THEN Outcome(content, Already, FALSE, FALSE)
    ELSE LET idx == Find(content, marker)
         IN  IF idx = -1
             THEN Outcome(content, Warning, FALSE, FALSE)
             ELSE \* content.index('\n', idx) raises ValueError when no newline follows
                  LET end_of_line == FindFrom(content, <<NL>>, idx)
                  IN  IF end_of_line = -1
                      THEN Outcome(content, Uncaught, FALSE, TRUE)
                      ELSE Outcome(Slice(content, 0, end_of_line + 1) \o code_block
                                       \o SliceFrom(content, end_of_line + 1),
                                   Patched, TRUE, FALSE)

\* variant: insert_before whose suffix starts one position late
InsertBefore_dropchar(content, marker, code_block) ==
    IF AlreadyApplied(content, code_block)
    THEN Outcome(content, Already, FALSE, FALSE)
    ELSE LET idx == Find(content, marker)
         IN  IF idx = -1
             THEN Outcome(content, Warning, FALSE, FALSE)
             ELSE LET start_of_line == RFind(content, <<NL>>, idx) + 1
                  IN  Outcome(Slice(content, 0, start_of_line) \o code_block
                                  \o SliceFrom(content, start_of_line + 1),
                              Patched, TRUE, FALSE)

\* insert_before (lines 59-74)
InsertBefore(content, marker, code_block) ==
    IF AlreadyApplied(content, code_block)
    THEN Outcome(content, Already, FALSE, FALSE)
    ELSE LET idx == Find(content, marker)
         IN  IF idx = -1
             THEN Outcome(content, Warning, FALSE, FALSE)
             ELSE LET start_of_line == RFind(content, <<NL>>, idx) + 1
                  IN  Outcome(Slice(content, 0, start_of_line) \o code_block
                                  \o SliceFrom(content, start_of_line),
                              Patched, TRUE, FALSE)

\* variant: replace_text that replaces every occurrence
ReplaceText_all(content, old_text, new_text) ==
    IF ~Contains(content, old_text)
    THEN IF AlreadyApplied(content, new_text)
         THEN Outcome(content, Already, FALSE, FALSE)
         ELSE Outcome(content, Warning, FALSE, FALSE)
    ELSE Outcome(ReplaceFirst_all(content, old_text, new_text), Patched, TRUE, FALSE)

\* replace_text (lines 77-91)
ReplaceText(content, old_text, new_text) ==
    IF ~Contains(content, old_text)
    THEN IF AlreadyApplied(content, new_text)
         THEN Outcome(content, Already, FALSE, FALSE)
         ELSE Outcome(content, Warning, FALSE, FALSE)
    ELSE Outcome(ReplaceFirst(content, old_text, new_text), Patched, TRUE, FALSE)

-----------------------------------------------------------------------------
(* State: of one primitive called on its own (SpecPrim), and of a run of    *)
(* main in the target repository (SpecMain).                                *)

VARIABLES
    content,    \* the file's content
    before,     \* its content when the latest call began
    once,       \* its content when the first call returned
    call,       \* the call made: [op, a, b], or NoCall
    calls,      \* how many times it has been made
    diag,       \* what the latest call printed
    wrote,      \* the latest call wrote the file
    threw       \* the latest call ended in an uncaught exception

primVars == <<content, before, once, call, calls, diag, wrote, threw>>

VARIABLES
    prereqs,     \* [package_json, api_dir, node_red]: which prerequisites hold
    files,       \* content of each target file
    initial,     \* content of each target file before the first run
    afterFirst,  \* content of each target file when the first run ended
    run,         \* number of the current run of main
    pc,          \* 0: at check_prereqs; k: about to make call k of Program
    status,      \* "running" or "exited"
    exitCode,    \* the process's exit code, -1 while running
    log,         \* diagnostic of each call of this run, "pending" if not made
    opened,      \* files opened during this run
    made,        \* calls that have been made and have returned, in any run
    applied,     \* calls that have printed Patched, in any run
    crashed      \* this run ended in an uncaught exception

mainVars == <<prereqs, files, initial, afterFirst, run, pc, status, exitCode,
              log, opened, made, applied, crashed>>

vars == <<primVars, mainVars>>

-----------------------------------------------------------------------------
(* One primitive called on one file, and the same call made again.          *)

MaxLen   == 4
MaxCalls == 2

Alphabet == {NL, SP, CM, IMP, "a", "b"}

Texts == UNION {[1..n -> Alphabet] : n \in 0..MaxLen}

NoCall == [op |-> "none", a |-> <<>>, b |-> <<>>]

ImportLines == {<<IMP, "a">>, <<IMP, "b">>, <<"b">>}

Markers == {<<"a">>, <<"b">>, <<"a", NL, "b">>}

\* code blocks: a comment line then a code line; a single code line; only a comment
CodeBlocks == {<<NL, SP, CM, "a", NL, SP, "b", NL>>, <<"a", "b", NL>>, <<CM, "a", NL>>}

\* <<old_text, new_text>>; in the second new_text ends with old_text
Replacements ==
    {<<<<"a">>, <<"b">>>>,
     <<<<"a">>, <<CM, "b", NL, SP, "b", NL, "a">>>>,
     <<<<"a", NL>>, <<"a", NL, SP, "b", NL>>>>,
     <<<<"b">>, <<CM, "a">>>>}

PrimInit ==
    /\ content \in Texts
    /\ before = content
    /\ once = content
    /\ call = NoCall
    /\ calls = 0
    /\ diag = Silent
    /\ wrote = FALSE
    /\ threw = FALSE

\* the first call, or the same call once more
MayCall(c) == calls = 0 \/ (calls < MaxCalls /\ call = c)

Returned(c, out) ==
    /\ call' = c
    /\ calls' = calls + 1
    /\ before' = content
    /\ content' = out.content
    /\ once' = IF calls = 0 THEN out.content ELSE once
    /\ diag' = out.diag
    /\ wrote' = out.wrote
    /\ threw' = out.raised
    /\ UNCHANGED mainVars

CallInsertImport ==
    \E import_line \in ImportLines :
        LET c == [op |-> "insert_import", a |-> import_line, b |-> <<>>]
        IN  MayCall(c) /\ Returned(c, InsertImport(content, import_line))

CallInsertAfter ==
    \E marker \in Markers, code_block \in CodeBlocks :
        LET c == [op |-> "insert_after", a |-> marker, b |-> code_block]
        IN  MayCall(c) /\ Returned(c, InsertAfter(content, marker, code_block))

CallInsertBefore ==
    \E marker \in Markers, code_block \in CodeBlocks :
        LET c == [op |-> "insert_before", a |-> marker, b |-> code_block]
        IN  MayCall(c) /\ Returned(c, InsertBefore(content, marker, code_block))

CallReplaceText ==
    \E r \in Replacements :
        LET c == [op |-> "replace_text", a |-> r[1], b |-> r[2]]
        IN  MayCall(c) /\ Returned(c, ReplaceText(content, r[1], r[2]))

PrimNext ==
    \/ CallReplaceText
    \/ CallInsertImport
    \/ CallInsertAfter
    \/ CallInsertBefore


-----------------------------------------------------------------------------
(* main: the literals of the seven patches.  Each line of a literal is its  *)
(* indentation (IN2 lexemes), its text and NL; the non-ASCII arrow and dash *)
(* of the texts are written -> and -, the backquotes of [7/7] as quotes.    *)

I2 == <<IN2>>
I4 == <<IN2, IN2>>
I6 == <<IN2, IN2, IN2>>
I8 == <<IN2, IN2, IN2, IN2>>

SubmitRoute   == "src/app/api/app/issues/submit/route.ts"
IssuesRoute   == "src/app/api/issues/route.ts"
IdeasRoute    == "src/app/api/ideas/route.ts"
VoteRoute     == "src/app/api/ideas/[id]/vote/route.ts"
WebhookRoute  == "src/app/api/stripe/webhook/route.ts"
UploadRoute   == "src/app/api/admin/downloads/upload/route.ts"
IntrusionLib  == "src/lib/intrusion.ts"

TargetFiles ==
    {SubmitRoute, IssuesRoute, IdeasRoute, VoteRoute, WebhookRoute, UploadRoute, IntrusionLib}

ImportNewIssue      == <<IMP, "{ notifyNewIssue } from '@/lib/node-red';">>
ImportNewIdea       == <<IMP, "{ notifyNewIdea } from '@/lib/node-red';">>
ImportIdeaPopular   == <<IMP, "{ notifyIdeaPopular } from '@/lib/node-red';">>
ImportPayment       == <<IMP, "{ notifyPayment } from '@/lib/node-red';">>
ImportRelease       == <<IMP, "{ notifyRelease } from '@/lib/node-red';">>
ImportSecurityAlert == <<IMP, "{ notifySecurityAlert } from '@/lib/node-red';">>

SubmitMarker ==
    <<"return NextResponse.json({", NL>>
    \o I6 \o <<"success: true,", NL>>
    \o I6 \o <<"message: 'Issue submitted successfully'">>

SubmitBlock ==
    <<NL>>
    \o I4 \o <<CM, SP, "Notify Node-RED -> WhatsApp (fire-and-forget)", NL>>
    \o I4 \o <<"notifyNewIssue({", NL>>
    \o I6 \o <<"id: issue.id,", NL>>
    \o I6 \o <<"title,", NL>>
    \o I6 \o <<"description,", NL>>
    \o I6 \o <<"area,", NL>>
    \o I6 \o <<"authorEmail: user.email,", NL>>
    \o I6 \o <<"source: 'app',", NL>>
    \o I4 \o <<"});", NL, NL>>

IssuesMarker == <<"return NextResponse.json({ success: true, id: issue.id });">>

IssuesBlock ==
    <<NL>>
    \o I2 \o <<CM, SP, "Notify Node-RED -> WhatsApp (fire-and-forget)", NL>>
    \o I2 \o <<"notifyNewIssue({", NL>>
    \o I4 \o <<"id: issue.id,", NL>>
    \o I4 \o <<"title,", NL>>
    \o I4 \o <<"description,", NL>>
    \o I4 \o <<"area,", NL>>
    \o I4 \o <<"authorEmail: session.user?.email || '',", NL>>
    \o I4 \o <<"source: 'website',", NL>>
    \o I2 \o <<"});", NL, NL>>

IdeasMarker == <<CM, SP, "Auto-vote for the author">>

IdeasBlock ==
    <<NL>>
    \o I4 \o <<CM, SP, "Notify Node-RED -> WhatsApp (fire-and-forget)", NL>>
    \o I4 \o <<"notifyNewIdea({", NL>>
    \o I6 \o <<"id: idea.id,", NL>>
    \o I6 \o <<"title: idea.title,", NL>>
    \o I6 \o <<"description,", NL>>
    \o I6 \o <<"category: 'feature',", NL>>
    \o I6 \o <<"authorEmail: session.user?.email || '',", NL>>
    \o I4 \o <<"});", NL, NL>>

VoteOld ==
    <<"return NextResponse.json({", SP, NL>>
    \o I8 \o <<"voted: true,", SP, NL>>
    \o I8 \o <<"votes: voteCount", SP, NL>>
    \o I6 \o <<"});">>

\* the replacement ends with the text it replaces
VoteNew ==
    <<CM, SP, "Check vote threshold -> WhatsApp notification", NL>>
    \o I6 \o <<"const VOTE_THRESHOLD = 5;", NL>>
    \o I6 \o <<"if (voteCount >= VOTE_THRESHOLD && (voteCount - 1) < VOTE_THRESHOLD) {", NL>>
    \o I8 \o <<"notifyIdeaPopular({", NL>>
    \o I8 \o I2 \o <<"id: ideaId,", NL>>
    \o I8 \o I2 \o <<"title: idea.title,", NL>>
    \o I8 \o I2 \o <<"voteCount,", NL>>
    \o I8 \o I2 \o <<"threshold: VOTE_THRESHOLD,", NL>>
    \o I8 \o <<"});", NL>>
    \o I6 \o <<"}", NL, NL>>
    \o I6 \o VoteOld

SubscriptionOld ==
    I6 \o <<"cancelAtPeriodEnd: subscription.cancel_at_period_end,", NL>>
    \o I4 \o <<"},", NL>>
    \o I2 \o <<"});", NL>>
    \o <<"}">>

SubscriptionNew ==
    I6 \o <<"cancelAtPeriodEnd: subscription.cancel_at_period_end,", NL>>
    \o I4 \o <<"},", NL>>
    \o I2 \o <<"});", NL>>
    \o <<NL>>
    \o I2 \o <<CM, SP, "Notify Node-RED -> WhatsApp", NL>>
    \o I2 \o <<"notifyPayment({", NL>>
    \o I4 \o <<"event: 'subscription-created',", NL>>
    \o I4 \o <<"email: session.customer_email || '',", NL>>
    \o I4 \o <<"plan: await getPlanFromPriceId(subscription.items.data[0].price.id),", NL>>
    \o I4 \o <<"amount: subscription.items.data[0].price.unit_amount || 0,", NL>>
    \o I2 \o <<"});", NL>>
    \o <<"}">>

FailedOld == <<CM, SP, "TODO: Send email notification about failed payment">>

FailedNew ==
    <<CM, SP, "Notify Node-RED -> WhatsApp", NL>>
    \o I2 \o <<"notifyPayment({", NL>>
    \o I4 \o <<"event: 'payment-failed',", NL>>
    \o I4 \o <<"email: (invoice as any).customer_email || '',", NL>>
    \o I4 \o <<"plan: team.plan || 'unknown',", NL>>
    \o I4 \o <<"amount: invoice.amount_due,", NL>>
    \o I4 \o <<"details: 'Invoice payment failed',", NL>>
    \o I2 \o <<"});">>

UploadMarker ==
    <<"return NextResponse.json({", NL>>
    \o I6 \o <<"success: true,", NL>>
    \o I6 \o <<"message: 'Release uploaded successfully.'">>

UploadBlock ==
    <<NL>>
    \o I4 \o <<CM, SP, "Notify Node-RED -> WhatsApp", NL>>
    \o I4 \o <<"notifyRelease({", NL>>
    \o I6 \o <<"version: resolvedVersion,", NL>>
    \o I6 \o <<"platform,", NL>>
    \o I6 \o <<"releaseNotes: releaseNotes || undefined,", NL>>
    \o I4 \o <<"});", NL, NL>>

IntrusionMarker == <<".catch(err => console.error('[Intrusion] Email send failed:', err));">>

IntrusionBlock ==
    <<NL>>
    \o I6 \o <<CM, SP, "Also notify via WhatsApp (fire-and-forget)", NL>>
    \o I6 \o <<"notifySecurityAlert({", NL>>
    \o I8 \o <<"severity,", NL>>
    \o I8 \o <<"eventType: escalatedType,", NL>>
    \o I8 \o <<"sourceIp: event.ip,", NL>>
    \o I8 \o <<"details: '${count} events in ${WINDOW_MS / 60000}min - path: ${event.path || '-'}',", NL>>
    \o I6 \o <<"}).catch(() => {});", NL>>

Step(op, file, a, b) == [op |-> op, file |-> file, a |-> a, b |-> b]

\* the calls main makes after check_prereqs, in order
Program ==
    << Step("insert_import", SubmitRoute, ImportNewIssue, <<>>),
       Step("insert_before", SubmitRoute, SubmitMarker, SubmitBlock),
       Step("insert_import", IssuesRoute, ImportNewIssue, <<>>),
       Step("insert_before", IssuesRoute, IssuesMarker, IssuesBlock),
       Step("insert_import", IdeasRoute, ImportNewIdea, <<>>),
       Step("insert_after", IdeasRoute, IdeasMarker, IdeasBlock),
       Step("insert_import", VoteRoute, ImportIdeaPopular, <<>>),
       Step("replace_text", VoteRoute, VoteOld, VoteNew),
       Step("insert_import", WebhookRoute, ImportPayment, <<>>),
       Step("replace_text", WebhookRoute, SubscriptionOld, SubscriptionNew),
       Step("replace_text", WebhookRoute, FailedOld, FailedNew),
       Step("insert_import", UploadRoute, ImportRelease, <<>>),
       Step("insert_before", UploadRoute, UploadMarker, UploadBlock),
       Step("insert_import", IntrusionLib, ImportSecurityAlert, <<>>),
       Step("insert_after", IntrusionLib, IntrusionMarker, IntrusionBlock) >>

Steps == 1..Len(Program)

\* the markers and old texts main looks for in a file, in order
Anchors(file) ==
    LET upto[k \in 0..Len(Program)] ==
            IF k = 0 THEN <<>>
            ELSE upto[k - 1] \o (IF Program[k].file = file /\ Program[k].op # "insert_import"
                                 THEN <<Program[k].a>> ELSE <<>>)
    IN  upto[Len(Program)]

-----------------------------------------------------------------------------
(* The target repository main is run in: whether the three prerequisites    *)
(* hold, and the content of the seven target files (all exist).             *)

ExistingImport == <<IMP, "{ NextResponse } from 'next/server';", NL>>

AnchorLines(anchors) ==
    LET upto[k \in 0..Len(anchors)] ==
            IF k = 0 THEN <<>> ELSE upto[k - 1] \o <<NL>> \o I4 \o anchors[k]
    IN  upto[Len(anchors)]

\* unpatched, every anchor on a line of its own and followed by further lines
Pristine(file) == ExistingImport \o AnchorLines(Anchors(file)) \o <<NL, "}", NL>>

\* unpatched, the last anchor ends the file and no newline follows it
Unterminated(file) == ExistingImport \o AnchorLines(Anchors(file))

\* a file with no import line and none of the anchors
Bare(file) == <<"export {};", NL>>

Shapes == {"pristine", "unterminated", "bare"}

InitialContent(file, shape) ==
    IF shape = "pristine" THEN Pristine(file)
    ELSE IF shape = "unterminated" THEN Unterminated(file)
    ELSE Bare(file)

MaxRuns == 2

Pending == "pending"

MainInit ==
    /\ prereqs \in [package_json : BOOLEAN, api_dir : BOOLEAN, node_red : BOOLEAN]
    /\ \E shape \in [TargetFiles -> Shapes] :
           files = [f \in TargetFiles |-> InitialContent(f, shape[f])]
    /\ initial = files
    /\ afterFirst = files
    /\ run = 1
    /\ pc = 0
    /\ status = "running"
    /\ exitCode = -1
    /\ log = [k \in Steps |-> Pending]
    /\ opened = {}
    /\ made = {}
    /\ applied = {}
    /\ crashed = FALSE

Exit(code) ==
    /\ status' = "exited"
    /\ exitCode' = code

\* check_prereqs: sys.exit(1) unless all three prerequisites hold
PrereqsOK == prereqs.package_json /\ prereqs.api_dir /\ prereqs.node_red

CheckPrereqs ==
    /\ status = "running"
    /\ pc = 0
    /\ IF (~prereqs.package_json \/ ~prereqs.api_dir) \/ ~prereqs.node_red
       THEN Exit(1) /\ pc' = pc
       ELSE pc' = 1 /\ UNCHANGED <<status, exitCode>>
    /\ UNCHANGED <<prereqs, files, initial, afterFirst, run, log, opened, made, applied, crashed>>
    /\ UNCHANGED primVars

\* one call of main returns, or its exception ends the process with code 1
Made(out) ==
    LET c == Program[pc]
    IN  /\ files' = [files EXCEPT ![c.file] = out.content]
        /\ log' = [log EXCEPT ![pc] = out.diag]
        /\ opened' = opened \cup {c.file}
        /\ made' = IF out.raised THEN made ELSE made \cup {pc}
        /\ applied' = IF out.diag = Patched THEN applied \cup {pc} ELSE applied
        /\ crashed' = out.raised
        /\ IF out.raised
           THEN Exit(1) /\ pc' = pc
           ELSE pc' = pc + 1 /\ UNCHANGED <<status, exitCode>>
        /\ UNCHANGED <<prereqs, initial, afterFirst, run>>
        /\ UNCHANGED primVars

AtCall(op) == status = "running" /\ pc \in Steps /\ Program[pc].op = op

DoInsertImport ==
    /\ AtCall("insert_import")
    /\ Made(InsertImport(files[Program[pc].file], Program[pc].a))

DoInsertAfter ==
    /\ AtCall("insert_after")
    /\ Made(InsertAfter(files[Program[pc].file], Program[pc].a, Program[pc].b))

DoInsertBefore ==
    /\ AtCall("insert_before")
    /\ Made(InsertBefore(files[Program[pc].file], Program[pc].a, Program[pc].b))

DoReplaceText ==
    /\ AtCall("replace_text")
    /\ Made(ReplaceText(files[Program[pc].file], Program[pc].a, Program[pc].b))

\* main returns after the last call: exit code 0
Finish ==
    /\ status = "running"
    /\ pc = Len(Program) + 1
    /\ Exit(0)
    /\ UNCHANGED <<prereqs, files, initial, afterFirst, run, pc, log, opened, made, applied, crashed>>
    /\ UNCHANGED primVars

\* the script is run again in the same repository
RunAgain ==
    /\ status = "exited"
    /\ run < MaxRuns
    /\ run' = run + 1
    /\ afterFirst' = IF run = 1 THEN files ELSE afterFirst
    /\ pc' = 0
    /\ status' = "running"
    /\ exitCode' = -1
    /\ log' = [k \in Steps |-> Pending]
    /\ opened' = {}
    /\ crashed' = FALSE
    /\ UNCHANGED <<prereqs, files, initial, made, applied>>
    /\ UNCHANGED primVars

MainNext ==
    \/ CheckPrereqs
    \/ DoInsertImport
    \/ DoInsertAfter
    \/ DoInsertBefore
    \/ DoReplaceText
    \/ Finish
    \/ RunAgain

\* main is not run in SpecPrim; no primitive is called on its own in SpecMain
MainIdle ==
    /\ prereqs = [package_json |-> TRUE, api_dir |-> TRUE, node_red |-> TRUE]
    /\ files = [f \in TargetFiles |-> <<>>]
    /\ initial = files
    /\ afterFirst = files
    /\ run = 1
    /\ pc = 0
    /\ status = "running"
    /\ exitCode = -1
    /\ log = [k \in Steps |-> Pending]
    /\ opened = {}
    /\ made = {}
    /\ applied = {}
    /\ crashed = FALSE

PrimIdle ==
    /\ content = <<>>
    /\ before = <<>>
    /\ once = <<>>
    /\ call = NoCall
    /\ calls = 0
    /\ diag = Silent
    /\ wrote = FALSE
    /\ threw = FALSE

InitMain == MainInit /\ PrimIdle

SpecMain == InitMain /\ [][MainNext]_vars

InitPrim == PrimInit /\ MainIdle

SpecPrim == InitPrim /\ [][PrimNext]_vars

-----------------------------------------------------------------------------
(* Properties of a single call (SpecPrim) *)

Inserting == calls > 0 /\ call.op \in {"insert_after", "insert_before"}
Replacing == calls > 0 /\ call.op = "replace_text"
Importing == calls > 0 /\ call.op = "insert_import"

\* i is the position of the first occurrence of sub in s
FirstAt(s, sub, i) ==
    OccursAt(s, sub, i) /\ \A j \in 0..(i - 1) : ~OccursAt(s, sub, j)

\* no newline in s[a:b]
NoNewline(s, a, b) == \A j \in a..(b - 1) : s[j + 1] # NL

\* C3 as stated: when the marker (insert_after, insert_before) or the old text
\* (replace_text) is absent from the file, the file is unchanged and the
\* diagnostic is the warning, not 'Already applied' and not 'Patched'.
C3_AbsentWarns ==
    ((Inserting \/ Replacing) /\ ~Contains(before, call.a))
        => (content = before /\ ~wrote /\ diag = Warning)

\* C3 amended: when the marker or the old text is absent, the file is unchanged
\* and a diagnostic is printed: 'Already applied' when the first non-blank,
\* non-comment line of the block occurs in the file, the warning otherwise.
C3_AbsentUnchangedDiagnosed ==
    ((Inserting \/ Replacing) /\ ~Contains(before, call.a))
        => /\ content = before
           /\ ~wrote
           /\ diag = IF AlreadyApplied(before, call.b) THEN Already ELSE Warning

C3_Witness ==
    /\ Inserting
    /\ ~Contains(before, call.a)
    /\ diag = Already

\* C4: whenever insert_before or insert_after writes the file, the new content
\* is prefix + code_block + suffix with prefix + suffix the original content.
C4_SplicePreserves ==
    (Inserting /\ wrote)
        => \E k \in 0..Len(before) :
               content = Slice(before, 0, k) \o call.b \o SliceFrom(before, k)

C4_Witness ==
    /\ calls > 0
    /\ call.op = "insert_before"
    /\ wrote
    /\ \E k \in 1..(Len(before) - 1) :
           content = Slice(before, 0, k) \o call.b \o SliceFrom(before, k)

C8_FirstMarkerLine ==
    Inserting =>
        /\ (~Contains(before, call.a) \/ AlreadyApplied(before, call.b))
             => (~wrote /\ content = before)
        /\ wrote =>
             \E i \in 0..Len(before) :
                /\ FirstAt(before, call.a, i)
                /\ IF call.op = "insert_after"
                   THEN \E e \in i..(Len(before) - 1) :
                           /\ before[e + 1] = NL
                           /\ NoNewline(before, i, e)
                           /\ content = Slice(before, 0, e + 1) \o call.b
                                            \o SliceFrom(before, e + 1)
                   ELSE \E b \in 0..i :
                           /\ b = 0 \/ before[b] = NL
                           /\ NoNewline(before, b, i)
                           /\ content = Slice(before, 0, b) \o call.b
                                            \o SliceFrom(before, b)

C8_Witness ==
    /\ calls > 0
    /\ call.op = "insert_after"
    /\ wrote
    /\ \E i, j \in 0..Len(before) :
           i < j /\ OccursAt(before, call.a, i) /\ OccursAt(before, call.a, j)

\* C9: replace_text replaces exactly the first occurrence of old_text by
\* new_text and leaves every other position, later occurrences included, as
\* it was; when old_text is absent it does not write and prints 'Already
\* applied' exactly when the first non-blank, non-comment line of new_text
\* occurs in the file, and the 'Text not found' warning otherwise.
C9_ReplaceFirstOnly ==
    Replacing =>
        IF Contains(before, call.a)
        THEN /\ wrote
             /\ diag = Patched
             /\ \E i \in 0..Len(before) :
                   /\ FirstAt(before, call.a, i)
                   /\ content = Slice(before, 0, i) \o call.b
                                    \o SliceFrom(before, i + Len(call.a))
        ELSE /\ ~wrote
             /\ content = before
             /\ diag \in {Already, Warning}
             /\ diag = Already <=>
                   \E k \in 1..Len(CheckLines(call.b)) :
                      k = 1 /\ Contains(before, CheckLines(call.b)[k])

C9_Witness ==
    /\ Replacing
    /\ wrote
    /\ \E i, j \in 0..Len(before) :
           i + Len(call.a) <= j /\ OccursAt(before, call.a, i) /\ OccursAt(before, call.a, j)

\* C10: each primitive is idempotent: the same call made twice in succession
\* leaves the file as the first call left it.
C10_PrimitiveIdempotent == calls >= 2 => content = once

-----------------------------------------------------------------------------
(* Properties of main (SpecMain) *)

\* number of positions at which sub occurs in s
Count(s, sub) == Cardinality({i \in 0..(Len(s) - Len(sub)) : OccursAt(s, sub, i)})

InsertCalls == {k \in Steps : Program[k].op \in {"insert_after", "insert_before"}}
ImportCalls == {k \in Steps : Program[k].op = "insert_import"}

\* the first non-blank, non-comment line of the block of call k
FirstLine(k) == CheckLines(Program[k].b)[1]

\* C1: running main twice leaves every target file as running it once left it.
C1_MainIdempotent == (run >= 2 /\ status = "exited") => files = afterFirst

\* C2 as stated: after main has run, each target file holds exactly one
\* occurrence of its import line and exactly one occurrence of the first
\* non-comment line of each block main inserts into it.
C2_ExactlyOnce ==
    (PrereqsOK /\ status = "exited") =>
        /\ \A k \in ImportCalls : Count(files[Program[k].file], Program[k].a) = 1
        /\ \A k \in InsertCalls : Count(files[Program[k].file], FirstLine(k)) = 1

\* C2 amended: a target file that did not contain its import line before main
\* ran holds exactly one occurrence of it once main's insert_import on the
\* file has returned, and a file holds exactly one occurrence of the first
\* non-comment line of each block whose insert_before / insert_after printed
\* Patched; both in the run that made the call and in every later run.
C2_OncePerAppliedPatch ==
    /\ \A k \in ImportCalls :
          (k \in made /\ ~Contains(initial[Program[k].file], Program[k].a))
              => Count(files[Program[k].file], Program[k].a) = 1
    /\ \A k \in InsertCalls :
          k \in applied => Count(files[Program[k].file], FirstLine(k)) = 1

C2_Witness ==
    /\ run = 2
    /\ status = "exited"
    /\ exitCode = 0
    /\ ImportCalls \subseteq made
    /\ InsertCalls \subseteq applied

\* C6: main exits with code 1 when a prerequisite fails, and then no target
\* file has been read or written; in every other case the exit code is 0.
C6_ExitCode ==
    status = "exited" =>
        /\ exitCode = IF PrereqsOK THEN 0 ELSE 1
        /\ ~PrereqsOK => (opened = {} /\ files = initial)

\* C7: with the prerequisites met (and the seven files present) main runs to
\* completion whatever the files hold: the calls are made in the fixed order,
\* a patch that cannot be applied is skipped and the next is still attempted,
\* and no primitive raises.
C7_RunsToCompletion ==
    PrereqsOK =>
        /\ ~crashed
        /\ \A k \in Steps : (log[k] # Pending) => (status = "exited" \/ k < pc)
        /\ status = "exited" => \A k \in Steps : log[k] # Pending

====
